---- MODULE Spec2Model ----
(***************************************************************************)
(* Model of the transform engine and the quality engine of                 *)
(* cleaner_data_tickets (src/backend/transforms.py) and of the pipeline    *)
(* runner (src/scripts/cleaner.py, main).                                  *)
(*                                                                         *)
(* A pandas DataFrame is a record                                          *)
(*   [columns : sequence of column names,                                  *)
(*    index   : sequence of row labels,                                    *)
(*    data    : sequence of columns, data[j] the cells of columns[j]]      *)
(* and a pandas Series is [index, values].  A cell is a record             *)
(*   [k : kind, s : sequence of characters, n : integer].                  *)
(***************************************************************************)
EXTENDS Integers, Sequences, FiniteSets, TLC

VARIABLES
    df,         \* the input table (pipeline) / the test fixture (quality calls)
    config,     \* the run's configuration: mappings and quality rules
    pc,         \* position of the run
    out_df,     \* apply_transforms: the table under assembly
    temp,       \* apply_transforms: the column flowing through the chain
    rule_i,     \* apply_transforms: position in config['mappings']
    stage_i,    \* apply_transforms: position in rule['transforms']
    clean_df,   \* main: the table handed from mapping to the quality engine
    logs,       \* main: the quality report
    err,        \* the exception that ended the run, "" when none
    call,       \* direct call: the function and its arguments
    arg,        \* direct call: the table object passed in (df.copy())
    ret,        \* direct call: the returned table
    cnt         \* direct call: the returned count

vars == <<df, config, pc, out_df, temp, rule_i, stage_i, clean_df, logs, err,
          call, arg, ret, cnt>>

-----------------------------------------------------------------------------
(* Bounds *)

MaxRowsQ == 3

MaxRows == 2

MaxLen == 3

-----------------------------------------------------------------------------
(* Cells *)

NULL == [k |-> "null", s |-> <<>>, n |-> 0]
I(v) == [k |-> "int", s |-> <<>>, n |-> v]
S(t) == [k |-> "str", s |-> t, n |-> 0]
B(b) == [k |-> "bool", s |-> <<>>, n |-> IF b THEN 1 ELSE 0]

isna(x) == x.k = "null"
notna(x) == ~isna(x)

-----------------------------------------------------------------------------
(* Tables *)

EmptyTable == [columns |-> <<>>, index |-> <<>>, data |-> <<>>]

RangeIndex(n) == [i \in 1..n |-> i - 1]

NRows(t) == Len(t.index)

Range(f) == {f[i] : i \in DOMAIN f}

HasColumn(t, c) == c \in Range(t.columns)

ColIdx(t, c) == CHOOSE j \in 1..Len(t.columns) : t.columns[j] = c

Column(t, c) == t.data[ColIdx(t, c)]

\* df.iloc[pos]: the rows at the positions pos, in that order.
TakeRows(t, pos) ==
    [columns |-> t.columns,
     index   |-> [i \in 1..Len(pos) |-> t.index[pos[i]]],
     data    |-> [j \in 1..Len(t.columns) |->
                    [i \in 1..Len(pos) |-> t.data[j][pos[i]]]]]

\* The positions 1..n whose flag is set, ascending.
RECURSIVE Where(_, _)
Where(flags, n) ==
    IF n = 0 THEN <<>>
    ELSE IF flags[n] THEN Append(Where(flags, n - 1), n)
         ELSE Where(flags, n - 1)

\* mask.sum()
CountTrue(flags) == Cardinality({i \in DOMAIN flags : flags[i]})

\* df[c] = values, where values has the frame's own index (no re-alignment):
\* an existing column is overwritten in place, a new one is appended.
SetColumnValues(t, c, values) ==
    IF HasColumn(t, c)
    THEN [t EXCEPT !.data[ColIdx(t, c)] = values]
    ELSE [t EXCEPT !.columns = Append(@, c), !.data = Append(@, values)]

-----------------------------------------------------------------------------
(* Characters.  A text is a sequence of characters; each character is      *)
(* written as a one-element name:                                          *)
(*   " " space   "." full stop   "0" "1" ASCII digits   ">" greater-than   *)
(*   "A" "a" letters   "sup2" U+00B2 superscript two                       *)
(*   "a_acute" U+00E1   "acute" U+0301 combining acute accent              *)
(***************************************************************************)

Chars == {" ", ".", "0", "1", ">", "A", "a", "sup2", "a_acute", "acute"}

\* Order of the characters by code point (str comparison in Python).
CodePoint(c) ==
    CASE c = " " -> 32
      [] c = "-" -> 45
      [] c = "." -> 46
      [] c = "0" -> 48
      [] c = "1" -> 49
      [] c = "2" -> 50
      [] c = "3" -> 51
      [] c = "4" -> 52
      [] c = "5" -> 53
      [] c = "6" -> 54
      [] c = "7" -> 55
      [] c = "8" -> 56
      [] c = "9" -> 57
      [] c = ":" -> 58
      [] c = ">" -> 62
      [] c = "A" -> 65
      [] c = "a" -> 97
      [] c = "o" -> 111
      [] c = "r" -> 114
      [] c = "t" -> 116
      [] c = "sup2" -> 178
      [] c = "a_acute" -> 225
      [] c = "acute" -> 769

\* s < t for two texts (lexicographic by code point).
RECURSIVE StrLess(_, _)
StrLess(s, t) ==
    IF t = <<>> THEN FALSE
    ELSE IF s = <<>> THEN TRUE
    ELSE IF CodePoint(Head(s)) # CodePoint(Head(t))
         THEN CodePoint(Head(s)) < CodePoint(Head(t))
         ELSE StrLess(Tail(s), Tail(t))

\* The sentinel written by enforce_allowed_values.
OTRO == S(<<"o", "t", "r", "o">>)

-----------------------------------------------------------------------------
(* Text primitives of Python, on sequences of characters *)

F(t) == [k |-> "float", s |-> t, n |-> 0]
DT(d) == [k |-> "dt", s |-> <<>>, n |-> d]

\* The outcome of a cell function that raised the exception exc.
RAISE(exc) == [k |-> "raise", s |-> <<exc>>, n |-> 0]

IsRaise(x) == x.k = "raise"

DigitChars == <<"0", "1", "2", "3", "4", "5", "6", "7", "8", "9">>

\* Characters of category Nd (what \d matches and int() accepts).
IsDecimal(c) == c \in Range(DigitChars)

DigitValue(c) == (CHOOSE d \in 1..10 : DigitChars[d] = c) - 1

\* str.isdigit() of one character: Nd, and digits such as U+00B2.
IsDigitChar(c) == IsDecimal(c) \/ c = "sup2"

\* \s of re and the characters str.strip() removes.
IsSpace(c) == c = " "

RECURSIVE lstrip(_)
lstrip(s) == IF s # <<>> /\ IsSpace(Head(s)) THEN lstrip(Tail(s)) ELSE s

RECURSIVE rstrip(_)
rstrip(s) ==
    IF s # <<>> /\ IsSpace(s[Len(s)]) THEN rstrip(SubSeq(s, 1, Len(s) - 1))
    ELSE s

\* str.strip()
strip(s) == rstrip(lstrip(s))

\* re.sub(r"\s+", " ", s)
RECURSIVE collapse_spaces(_)
collapse_spaces(s) ==
    IF s = <<>> THEN <<>>
    ELSE IF IsSpace(Head(s))
         THEN <<" ">> \o collapse_spaces(lstrip(s))
         ELSE <<Head(s)>> \o collapse_spaces(Tail(s))

LowerChar(c) == IF c = "A" THEN "a" ELSE c

\* str.lower()
lower(s) == [i \in 1..Len(s) |-> LowerChar(s[i])]

\* Canonical decomposition of one character.
Decompose(c) == IF c = "a_acute" THEN <<"a", "acute">> ELSE <<c>>

\* unicodedata.normalize('NFD', s)
RECURSIVE NFD(_)
NFD(s) == IF s = <<>> THEN <<>> ELSE Decompose(Head(s)) \o NFD(Tail(s))

\* unicodedata.category(c) = 'Mn'
IsMn(c) == c = "acute"

RECURSIVE drop_marks(_)
drop_marks(s) ==
    IF s = <<>> THEN <<>>
    ELSE IF IsMn(Head(s)) THEN drop_marks(Tail(s))
         ELSE <<Head(s)>> \o drop_marks(Tail(s))

\* str(n) for an integer n >= 0
RECURSIVE str_int(_)
str_int(n) ==
    IF n < 10 THEN <<DigitChars[n + 1]>>
    ELSE Append(str_int(n \div 10), DigitChars[(n % 10) + 1])

\* The value of a non-empty sequence of decimal digits.
RECURSIVE digits_value(_)
digits_value(s) ==
    IF s = <<>> THEN 0
    ELSE 10 * digits_value(SubSeq(s, 1, Len(s) - 1)) + DigitValue(s[Len(s)])

AllDecimal(s) == s # <<>> /\ \A i \in 1..Len(s) : IsDecimal(s[i])

\* str.isdigit()
isdigit(s) == s # <<>> /\ \A i \in 1..Len(s) : IsDigitChar(s[i])

TwoDigits(n) == <<DigitChars[(n \div 10) + 1], DigitChars[(n % 10) + 1]>>

\* Timestamp.isoformat(sep=' ') of day d of January 1900, midnight.
isoformat(d) ==
    <<"1", "9", "0", "0", "-", "0", "1", "-">> \o TwoDigits(d)
        \o <<" ", "0", "0", ":", "0", "0", ":", "0", "0">>

\* str(x) of a non-null cell
str(x) ==
    CASE x.k = "str" -> x.s
      [] x.k = "int" -> str_int(x.n)
      [] x.k = "float" -> x.s
      [] x.k = "dt" -> isoformat(x.n)

\* int(x): a text of decimal digits, surrounding whitespace allowed, or an
\* integer; anything else raises.
int(x) ==
    CASE x.k = "int" -> I(x.n)
      [] x.k = "str" ->
            IF AllDecimal(strip(x.s)) THEN I(digits_value(strip(x.s)))
            ELSE RAISE("ValueError")
      [] OTHER -> RAISE("TypeError")

-----------------------------------------------------------------------------
(* Regular expressions.  A pattern is a sequence of atoms                  *)
(*   [cls : set of characters, q : "1" | "+" | "?", g : group number or 0] *)
(* compiled with re.IGNORECASE; consecutive atoms have disjoint classes,   *)
(* so the greedy match is the match re finds.                              *)

Digits == {"0", "1", "2", "3", "4", "5", "6", "7", "8", "9"}

\* r"(\d+)"
PatDigits == [atoms |-> <<[cls |-> Digits, q |-> "+", g |-> 1]>>,
              groups |-> 1]

\* r"a(\d)?"
PatAOptDigit == [atoms |-> <<[cls |-> {"a"}, q |-> "1", g |-> 0],
                             [cls |-> Digits, q |-> "?", g |-> 1]>>,
                 groups |-> 1]

\* r"(a)"
PatLetter == [atoms |-> <<[cls |-> {"a"}, q |-> "1", g |-> 1]>>,
              groups |-> 1]

NoMatch == [ok |-> FALSE, start |-> 0, end |-> 0, caps |-> <<>>]

\* The number of characters of s from position pos on that are in cls.
RECURSIVE RunLength(_, _, _)
RunLength(cls, s, pos) ==
    IF pos <= Len(s) /\ LowerChar(s[pos]) \in cls
    THEN 1 + RunLength(cls, s, pos + 1)
    ELSE 0

\* Match the atoms k.. of the pattern at position pos; caps[g] is the text
\* of group g, NULL while the group has not participated.
RECURSIVE MatchFrom(_, _, _, _, _)
MatchFrom(atoms, k, s, pos, caps) ==
    IF k > Len(atoms)
    THEN [ok |-> TRUE, start |-> 0, end |-> pos, caps |-> caps]
    ELSE
      LET a == atoms[k]
          run == RunLength(a.cls, s, pos)
          take == IF a.q = "+" THEN run ELSE IF run > 0 THEN 1 ELSE 0
          caps2 == IF a.g > 0 /\ take > 0
                   THEN [caps EXCEPT ![a.g] = S(SubSeq(s, pos, pos + take - 1))]
                   ELSE caps
      IN IF take = 0 /\ a.q # "?" THEN NoMatch
         ELSE MatchFrom(atoms, k + 1, s, pos + take, caps2)

MatchAt(pat, s, pos) ==
    MatchFrom(pat.atoms, 1, s, pos, [g \in 1..pat.groups |-> NULL])

\* regex.search(s): the match at the leftmost position that has one, with
\* its start position.
search(pat, s) ==
    LET starts == {pos \in 1..Len(s) : MatchAt(pat, s, pos).ok}
    IN IF starts = {} THEN NoMatch
       ELSE LET first == CHOOSE pos \in starts : \A q \in starts : pos <= q
            IN [MatchAt(pat, s, first) EXCEPT !.start = first]

\* m.group(g): the whole match, the text of a group, None for a group that
\* did not participate; a group the pattern does not have raises IndexError.
group(pat, s, m, g) ==
    IF g = 0 THEN S(SubSeq(s, m.start, m.end - 1))
    ELSE IF g > pat.groups THEN RAISE("IndexError")
    ELSE m.caps[g]

\* regex.sub("", s): s without its non-overlapping matches, left to right.
RECURSIVE sub_empty(_, _, _)
sub_empty(pat, s, pos) ==
    IF pos > Len(s) THEN <<>>
    ELSE LET m == MatchAt(pat, s, pos)
         IN IF m.ok /\ m.end > pos THEN sub_empty(pat, s, m.end)
            ELSE <<s[pos]>> \o sub_empty(pat, s, pos + 1)

-----------------------------------------------------------------------------
(* Transformations registry.  A transform of a mapping rule is a record    *)
(* with the name and every keyword parameter (DefaultParams where the      *)
(* config leaves one out).  A transform function returns                   *)
(*   [values : the cells of the returned Series, raised : exception or ""] *)

DefaultParams ==
    [name |-> "", lowercase |-> TRUE, strip_accents |-> TRUE, trim |-> TRUE,
     pattern |-> PatDigits, group |-> 1, as_type |-> "None", format |-> "%d",
     to |-> "string", delimiter |-> ">", index |-> 0, start_index |-> 2,
     join_with |-> <<" ", ">", " ">>, to_enc |-> "utf-8"]

T(name) == [DefaultParams EXCEPT !.name = name]

Returned(values) == [values |-> values, raised |-> ""]

\* Series.apply(f) and [f(x) for x in series]: out holds f of every cell in
\* row order; an exception raised by f on the first failing row leaves the
\* call.
apply(out) ==
    LET bad == {i \in 1..Len(out) : IsRaise(out[i])}
    IN IF bad = {} THEN Returned(out)
       ELSE [values |-> <<>>,
             raised |-> out[CHOOSE i \in bad : \A j \in bad : i <= j].s[1]]

_norm(x, p) ==
    IF isna(x) THEN x
    ELSE LET s0 == str(x)
             s1 == IF p.trim THEN collapse_spaces(strip(s0)) ELSE s0
             s2 == IF p.lowercase THEN lower(s1) ELSE s1
             s3 == IF p.strip_accents THEN drop_marks(NFD(s2)) ELSE s2
         IN S(s3)

normalize_text(series, p) ==
    apply([i \in 1..Len(series) |-> _norm(series[i], p)])

_remove(x, p) ==
    IF isna(x) THEN x
    ELSE S(strip(collapse_spaces(sub_empty(p.pattern, str(x), 1))))

remove_pattern(series, p) ==
    apply([i \in 1..Len(series) |-> _remove(series[i], p)])

_extract_int(x, p) ==
    IF isna(x) THEN NULL
    ELSE LET m == search(p.pattern, str(x))
         IN IF ~m.ok THEN NULL
            ELSE LET g == group(p.pattern, str(x), m, p.group)
                     v == IF IsRaise(g) THEN g ELSE int(g)
                 IN IF IsRaise(v) THEN NULL ELSE v

_extract_str(x, p) ==
    IF isna(x) THEN NULL
    ELSE LET m == search(p.pattern, str(x))
         IN IF ~m.ok THEN NULL ELSE group(p.pattern, str(x), m, p.group)

regex_extract(series, p) ==
    IF p.as_type = "int"
    THEN apply([i \in 1..Len(series) |-> _extract_int(series[i], p)])
    ELSE apply([i \in 1..Len(series) |-> _extract_str(series[i], p)])

\* The day a text is under the format '%d' (1..31, a leading zero or a
\* leading space allowed), 0 when the text does not match the format.
strptime_day(s) ==
    IF Len(s) = 1 /\ IsDecimal(s[1]) /\ s[1] # "0" THEN DigitValue(s[1])
    ELSE IF Len(s) = 2 /\ s[1] \in {"0", " "} /\ IsDecimal(s[2]) /\ s[2] # "0"
    THEN DigitValue(s[2])
    ELSE IF Len(s) = 2 /\ s[1] \in {"1", "2"} /\ IsDecimal(s[2])
    THEN digits_value(s)
    ELSE IF Len(s) = 2 /\ s[1] = "3" /\ s[2] \in {"0", "1"}
    THEN digits_value(s)
    ELSE 0

\* pd.to_datetime(series, format='%d', errors='coerce'), cell by cell.
_to_datetime(x) ==
    IF isna(x) \/ x.k = "dt" THEN x
    ELSE LET d == strptime_day(str(x))
         IN IF d = 0 THEN NULL ELSE DT(d)

to_datetime(series, p) ==
    apply([i \in 1..Len(series) |-> _to_datetime(series[i])])

_to_isoformat(x) ==
    IF notna(x)
    THEN IF x.k = "dt" THEN S(isoformat(x.n)) ELSE RAISE("AttributeError")
    ELSE NULL

to_isoformat(series, p) ==
    apply([i \in 1..Len(series) |-> _to_isoformat(series[i])])

\* trim without the pd.notna guard: str(x).strip() on every cell, so None
\* becomes the text "None".
_trim_unguarded(x) ==
    S(strip(IF isna(x) THEN <<"N", "o", "n", "e">> ELSE str(x)))

\* lambda x: str(x).strip() if pd.notna(x) else x
_trim(x) == IF notna(x) THEN S(strip(str(x))) ELSE x

trim(series, p) ==
    apply([i \in 1..Len(series) |-> _trim(series[i])])

\* The position of the first "." of s, 0 when it has none.
DotAt(s) ==
    IF \E i \in 1..Len(s) : s[i] = "."
    THEN CHOOSE i \in 1..Len(s) : s[i] = "." /\ \A j \in 1..(i - 1) : s[j] # "."
    ELSE 0

RECURSIVE strip_zeros_left(_)
strip_zeros_left(s) ==
    IF Len(s) > 1 /\ Head(s) = "0" THEN strip_zeros_left(Tail(s)) ELSE s

RECURSIVE strip_zeros_right(_)
strip_zeros_right(s) ==
    IF Len(s) > 1 /\ s[Len(s)] = "0"
    THEN strip_zeros_right(SubSeq(s, 1, Len(s) - 1))
    ELSE s

\* The number a cell is for pd.to_numeric(errors='coerce'): an integer for a
\* text of decimal digits, a float (written as Python writes it) for a
\* decimal text, null for any other text.
_to_numeric(x) ==
    IF x.k # "str" THEN x
    ELSE LET t == strip(x.s)
             d == DotAt(t)
             ip == SubSeq(t, 1, d - 1)
             fp == SubSeq(t, d + 1, Len(t))
         IN IF d = 0
            THEN IF AllDecimal(t) THEN I(digits_value(t)) ELSE NULL
            ELSE IF /\ ip = <<>> \/ AllDecimal(ip)
                    /\ fp = <<>> \/ AllDecimal(fp)
                    /\ ~(ip = <<>> /\ fp = <<>>)
                 THEN F(strip_zeros_left(IF ip = <<>> THEN <<"0">> ELSE ip)
                        \o <<".">>
                        \o strip_zeros_right(IF fp = <<>> THEN <<"0">> ELSE fp))
                 ELSE NULL

\* pd.to_numeric(series, errors='coerce'): int64 when every cell is an
\* integer, float64 otherwise (a null or a decimal makes the column float).
to_numeric(series) ==
    LET out == [i \in 1..Len(series) |-> _to_numeric(series[i])]
    IN IF \A i \in 1..Len(out) : out[i].k = "int" THEN out
       ELSE [i \in 1..Len(out) |->
                IF out[i].k = "int"
                THEN F(str_int(out[i].n) \o <<".", "0">>)
                ELSE out[i]]

\* One cell of astype("Int64") of a numeric column: a float that is not a
\* whole number cannot be cast.
_to_Int64(x) ==
    IF x.k # "float" THEN x
    ELSE LET d == DotAt(x.s)
         IN IF SubSeq(x.s, d + 1, Len(x.s)) = <<"0">>
            THEN I(digits_value(SubSeq(x.s, 1, d - 1)))
            ELSE RAISE("TypeError")

\* One cell of astype("string").
_to_string(x) == IF isna(x) THEN NULL ELSE S(str(x))

cast_type(series, p) ==
    IF p.to = "string" THEN apply([i \in 1..Len(series) |-> _to_string(series[i])])
    ELSE IF p.to = "int"
    THEN LET num == to_numeric(series)
         IN apply([i \in 1..Len(num) |-> _to_Int64(num[i])])
    ELSE IF p.to = "float" THEN Returned(to_numeric(series))
    ELSE Returned(series)

_strip_leading_zeros(x) ==
    IF notna(x) /\ isdigit(str(x))
    THEN LET v == int(x)
         IN IF IsRaise(v) THEN v ELSE S(str_int(v.n))
    ELSE x

strip_leading_zeros(series, p) ==
    apply([i \in 1..Len(series) |-> _strip_leading_zeros(series[i])])

\* str.split(delimiter) for a delimiter of one character.
RECURSIVE split(_, _)
split(s, d) ==
    IF \E i \in 1..Len(s) : s[i] = d
    THEN LET i == CHOOSE i \in 1..Len(s) :
                     s[i] = d /\ \A j \in 1..(i - 1) : s[j] # d
         IN <<SubSeq(s, 1, i - 1)>> \o split(SubSeq(s, i + 1, Len(s)), d)
    ELSE <<s>>

\* [p.strip() for p in str(x).split(delimiter)]
Parts(x, p) ==
    LET raw == split(str(x), p.delimiter)
    IN [i \in 1..Len(raw) |-> strip(raw[i])]

_split(x, p) ==
    IF isna(x) THEN NULL
    ELSE LET parts == Parts(x, p)
         IN IF Len(parts) > p.index THEN S(parts[p.index + 1]) ELSE NULL

split_by(series, p) ==
    apply([i \in 1..Len(series) |-> _split(series[i], p)])

\* join_with.join(parts)
RECURSIVE join(_, _)
join(parts, sep) ==
    IF parts = <<>> THEN <<>>
    ELSE IF Len(parts) = 1 THEN parts[1]
    ELSE parts[1] \o sep \o join(Tail(parts), sep)

_split_rest(x, p) ==
    IF isna(x) THEN NULL
    ELSE LET parts == Parts(x, p)
         IN IF Len(parts) > p.start_index
            THEN S(join(SubSeq(parts, p.start_index + 1, Len(parts)),
                        p.join_with))
            ELSE NULL

split_by_rest(series, p) ==
    apply([i \in 1..Len(series) |-> _split_rest(series[i], p)])

\* text.encode(to_enc, errors="ignore").decode(to_enc, errors="ignore"):
\* 'ascii' drops the characters above U+007F, 'utf-8' drops none.
RECURSIVE encode_decode(_, _)
encode_decode(s, enc) ==
    IF s = <<>> THEN <<>>
    ELSE IF enc = "ascii" /\ CodePoint(Head(s)) > 127
         THEN encode_decode(Tail(s), enc)
         ELSE <<Head(s)>> \o encode_decode(Tail(s), enc)

\* _conv of reencode for a cell that is not bytes.
_conv(x, p) == IF isna(x) THEN x ELSE S(encode_decode(str(x), p.to_enc))

reencode(series, p) ==
    apply([i \in 1..Len(series) |-> _conv(series[i], p)])

\* The keys of the TRANSFORMS dictionary.
TRANSFORMS ==
    {"normalize_text", "remove_pattern", "regex_extract", "to_datetime",
     "to_isoformat", "trim", "cast_type", "strip_leading_zeros", "split_by",
     "split_by_rest", "reencode"}

\* TRANSFORMS[t['name']](temp, **params)
func(t, series) ==
    CASE t.name = "normalize_text" -> normalize_text(series, t)
      [] t.name = "remove_pattern" -> remove_pattern(series, t)
      [] t.name = "regex_extract" -> regex_extract(series, t)
      [] t.name = "to_datetime" -> to_datetime(series, t)
      [] t.name = "to_isoformat" -> to_isoformat(series, t)
      [] t.name = "trim" -> trim(series, t)
      [] t.name = "cast_type" -> cast_type(series, t)
      [] t.name = "strip_leading_zeros" -> strip_leading_zeros(series, t)
      [] t.name = "split_by" -> split_by(series, t)
      [] t.name = "split_by_rest" -> split_by_rest(series, t)
      [] t.name = "reencode" -> reencode(series, t)

-----------------------------------------------------------------------------
(* Quality functions *)

\* a < b as Python compares two non-null cells of a column being sorted;
\* defined for cells of one kind (a mixed column makes the sort raise).
CellLess(a, b) ==
    IF a.k = "str" THEN StrLess(a.s, b.s) ELSE a.n < b.n

Sortable(values) ==
    \A i, j \in DOMAIN values :
        (notna(values[i]) /\ notna(values[j])) =>
            (values[i].k = "str") = (values[j].k = "str")

\* duplicated, with a null key equal to no other key (nulls never duplicates).
duplicated_nulls_distinct(keys, keep) ==
    [i \in 1..Len(keys) |->
        /\ notna(keys[i])
        /\ IF keep = "first"
           THEN \E j \in 1..(i - 1) : keys[j] = keys[i]
           ELSE \E j \in (i + 1)..Len(keys) : keys[j] = keys[i]]

\* duplicated, with keep=False: every row of a repeated key is flagged.
duplicated_keep_false(keys, keep) ==
    [i \in 1..Len(keys) |->
        \E j \in 1..Len(keys) : j # i /\ keys[j] = keys[i]]

\* Series.duplicated / DataFrame.duplicated(subset=[key], keep=...): a row is
\* flagged when an equal key stands before it (keep='first') or after it
\* (keep='last'); all nulls are one key value.
duplicated(keys, keep) ==
    [i \in 1..Len(keys) |->
        IF keep = "first"
        THEN \E j \in 1..(i - 1) : keys[j] = keys[i]
        ELSE \E j \in (i + 1)..Len(keys) : keys[j] = keys[i]]

\* drop_duplicates with keep=False: every row of a repeated key is removed.
drop_duplicates_keep_false(t, key, keep) ==
    LET keys == Column(t, key)
        flags == [i \in 1..NRows(t) |->
                     \E j \in 1..NRows(t) : j # i /\ keys[j] = keys[i]]
    IN TakeRows(t, Where([i \in 1..NRows(t) |-> ~flags[i]], NRows(t)))

\* drop_duplicates, keeping the last row of each key whatever keep says.
drop_duplicates_keep_last(t, key, keep) ==
    LET flags == duplicated(Column(t, key), "last")
    IN TakeRows(t, Where([i \in 1..NRows(t) |-> ~flags[i]], NRows(t)))

\* DataFrame.drop_duplicates(subset=[key], keep=...): df[~duplicated].
drop_duplicates(t, key, keep) ==
    LET flags == duplicated(Column(t, key), keep)
    IN TakeRows(t, Where([i \in 1..NRows(t) |-> ~flags[i]], NRows(t)))

RowOrders(n) ==
    {p \in [1..n -> 1..n] : \A i, j \in 1..n : p[i] = p[j] => i = j}

\* The row orders DataFrame.sort_values(by=c) can return.  The call leaves
\* kind at its default 'quicksort', which is not a stable sort, and
\* na_position at 'last': the non-null values come out ascending with equal
\* values in an order the sort algorithm picks, followed by the rows whose
\* value is null in their original order.
SortOrders(values) ==
    LET n == Len(values)
    IN {p \in RowOrders(n) :
          \A i, j \in 1..n : i < j =>
              /\ ~(isna(values[p[i]]) /\ notna(values[p[j]]))
              /\ (isna(values[p[i]]) /\ isna(values[p[j]])) => p[i] < p[j]
              /\ (notna(values[p[i]]) /\ notna(values[p[j]])) =>
                     ~CellLess(values[p[j]], values[p[i]])}

sort_values(t, by) == {TakeRows(t, p) : p \in SortOrders(Column(t, by))}

\* handle_duplicates(df, key, action, latest_by): the set of outcomes
\*   [df    : the returned table,
\*    count : the returned duplicate count,
\*    arg   : the caller's table object after the call,
\*    raised: the exception, "" when none].
handle_duplicates(t, key, action, latest_by) ==
    IF ~HasColumn(t, key)
    THEN {[df |-> t, count |-> 0, arg |-> t, raised |-> ""]}
    ELSE
      LET flags == duplicated(Column(t, key), "first")
          dup_count == CountTrue(flags)
      IN IF action = "keep_latest" /\ HasColumn(t, latest_by)
         THEN IF ~Sortable(Column(t, latest_by))
              THEN {[df |-> t, count |-> 0, arg |-> t, raised |-> "TypeError"]}
              ELSE {[df |-> drop_duplicates(sorted, key, "last"),
                     count |-> dup_count, arg |-> t, raised |-> ""] :
                        sorted \in sort_values(t, latest_by)}
         ELSE IF action = "drop"
         THEN {[df |-> drop_duplicates(t, key, "first"),
                count |-> dup_count, arg |-> t, raised |-> ""]}
         ELSE IF action = "mark"
         THEN LET marked == SetColumnValues(t, "duplicado",
                               [i \in 1..NRows(t) |-> B(flags[i])])
              IN {[df |-> marked, count |-> dup_count, arg |-> marked,
                   raised |-> ""]}
         ELSE {[df |-> t, count |-> dup_count, arg |-> t, raised |-> ""]}

\* enforce_allowed_values, with the mask missing "& df[column].notna()".
enforce_allowed_values_nulls(t, column, allowed) ==
    IF ~HasColumn(t, column)
    THEN [df |-> t, count |-> 0, arg |-> t]
    ELSE
      LET values == Column(t, column)
          mask == [i \in 1..NRows(t) |-> ~(values[i] \in allowed)]
          replaced == [t EXCEPT !.data[ColIdx(t, column)] =
                          [i \in 1..NRows(t) |->
                              IF mask[i] THEN OTRO ELSE values[i]]]
      IN [df |-> replaced, count |-> CountTrue(mask), arg |-> replaced]

\* enforce_allowed_values, with the early return for an absent column
\* reporting len(df) instead of 0.
enforce_allowed_values_absent_counts(t, column, allowed) ==
    IF ~HasColumn(t, column)
    THEN [df |-> t, count |-> NRows(t), arg |-> t]
    ELSE
      LET values == Column(t, column)
          mask == [i \in 1..NRows(t) |->
                      ~(values[i] \in allowed) /\ notna(values[i])]
          replaced == [t EXCEPT !.data[ColIdx(t, column)] =
                          [i \in 1..NRows(t) |->
                              IF mask[i] THEN OTRO ELSE values[i]]]
      IN [df |-> replaced, count |-> CountTrue(mask), arg |-> replaced]

\* enforce_allowed_values(df, column, allowed): [df, count, arg]; the table
\* is modified in place and returned.
enforce_allowed_values(t, column, allowed) ==
    IF ~HasColumn(t, column)
    THEN [df |-> t, count |-> 0, arg |-> t]
    ELSE
      LET values == Column(t, column)
          mask == [i \in 1..NRows(t) |->
                      ~(values[i] \in allowed) /\ notna(values[i])]
          replaced == [t EXCEPT !.data[ColIdx(t, column)] =
                          [i \in 1..NRows(t) |->
                              IF mask[i] THEN OTRO ELSE values[i]]]
      IN [df |-> replaced, count |-> CountTrue(mask), arg |-> replaced]

-----------------------------------------------------------------------------
(* Direct calls of the quality functions on a fixture, as the tests make   *)
(* them: handle_duplicates(df.copy(), key, action, latest_by) and          *)
(* enforce_allowed_values(df.copy(), column, allowed).                     *)

NoneName == "None"

NoCall == [fn |-> "", key |-> "", action |-> "", latest_by |-> "",
           column |-> "", allowed |-> {}]

QCells == {NULL, I(1), I(2)}

QColumns == {<<"key", "val">>, <<"val">>, <<"key", "duplicado">>}

QTables ==
    UNION {UNION {{[columns |-> cols, index |-> RangeIndex(n), data |-> d] :
                      d \in [1..Len(cols) -> [1..n -> QCells]]} :
                  n \in 0..MaxRowsQ} :
           cols \in QColumns}

QActions == {"keep_latest", "drop", "mark", "report"}

QAllowed == {{}, {I(1)}, {I(1), NULL}, {I(1), I(2)}}

InitQ ==
    /\ df \in QTables
    /\ arg = df
    /\ pc = "q_call"
    /\ call = NoCall
    /\ ret = EmptyTable
    /\ cnt = 0
    /\ err = ""
    /\ config = <<>>
    /\ out_df = EmptyTable
    /\ temp = <<>>
    /\ rule_i = 0
    /\ stage_i = 0
    /\ clean_df = EmptyTable
    /\ logs = <<>>

CallHandleDuplicates ==
    /\ pc = "q_call"
    /\ \E action \in QActions, latest_by \in {"val", NoneName} :
         \E o \in handle_duplicates(arg, "key", action, latest_by) :
            /\ call' = [NoCall EXCEPT !.fn = "handle_duplicates",
                                      !.key = "key", !.action = action,
                                      !.latest_by = latest_by]
            /\ arg' = o.arg
            /\ ret' = o.df
            /\ cnt' = o.count
            /\ err' = o.raised
    /\ pc' = "q_done"
    /\ UNCHANGED <<df, config, out_df, temp, rule_i, stage_i, clean_df, logs>>

CallEnforceAllowedValues ==
    /\ pc = "q_call"
    /\ \E allowed \in QAllowed :
         LET o == enforce_allowed_values(arg, "val", allowed)
         IN /\ call' = [NoCall EXCEPT !.fn = "enforce_allowed_values",
                                      !.column = "val", !.allowed = allowed]
            /\ arg' = o.arg
            /\ ret' = o.df
            /\ cnt' = o.count
    /\ pc' = "q_done"
    /\ UNCHANGED <<df, config, out_df, temp, rule_i, stage_i, clean_df, logs,
                   err>>

NextQ == CallHandleDuplicates \/ CallEnforceAllowedValues

SpecQ == InitQ /\ [][NextQ]_vars

-----------------------------------------------------------------------------
(* Properties of the quality functions (checked under SpecQ).  The fixture *)
(* df has the labels 0..n-1, so the label of a returned row names the      *)
(* fixture row it came from.                                               *)

DoneHD == pc = "q_done" /\ call.fn = "handle_duplicates" /\ err = ""

DoneEAV == pc = "q_done" /\ call.fn = "enforce_allowed_values"

\* Row i of the fixture is the first row, in row order, with its key.
FirstOccurrence(i) ==
    LET K == Column(df, "key")
    IN \A j \in 1..(i - 1) : K[j] # K[i]

\* Row r of the returned table is row i of the fixture, cell for cell, in
\* every column of the fixture.
SameRow(r, i) ==
    \A j \in 1..Len(df.columns) : ret.data[j][r] = df.data[j][i]

\* The returned table consists of exactly the fixture rows in the set keep,
\* each once.
ReturnsRows(keep) ==
    /\ NRows(ret) = Cardinality(keep)
    /\ \A r \in 1..NRows(ret) :
          ret.index[r] + 1 \in keep /\ SameRow(r, ret.index[r] + 1)
    /\ \A i \in keep : \E r \in 1..NRows(ret) : ret.index[r] = i - 1

\* C1: when the table has the key column, the reported duplicate count is
\* the number of rows minus the number of distinct key values (all nulls one
\* value), which is the number of rows that are not the first occurrence of
\* their key, whatever the action.
C1_DuplicateCount ==
    (DoneHD /\ HasColumn(df, "key")) =>
        /\ cnt = NRows(df) - Cardinality(Range(Column(df, "key")))
        /\ cnt = Cardinality({i \in 1..NRows(df) : ~FirstOccurrence(i)})

C1_Witness ==
    /\ DoneHD
    /\ HasColumn(df, "key")
    /\ call.action = "keep_latest"
    /\ ~HasColumn(df, call.latest_by)
    /\ cnt = 1
    /\ NRows(df) = 3
    /\ Cardinality({i \in 1..NRows(df) : Column(df, "key")[i] = NULL}) = 2

\* Row j comes before row i in the order the claim C2 describes: ascending
\* by tie-break value, rows of equal value in original row order; a null is
\* no value, so a row without one is never the row of maximal value.
ClaimedBefore(V, j, i) ==
    IF isna(V[j]) /\ isna(V[i]) THEN j < i
    ELSE IF isna(V[j]) THEN TRUE
    ELSE IF isna(V[i]) THEN FALSE
    ELSE CellLess(V[j], V[i]) \/ (V[j] = V[i] /\ j < i)

\* C2: keep_latest with the tie-break column present keeps, for each key,
\* exactly the row of maximal tie-break value among the rows of that key,
\* the last in original row order among those that share the maximum.
C2_KeepLatestMaximal ==
    (DoneHD /\ call.action = "keep_latest" /\ HasColumn(df, "key")
            /\ HasColumn(df, call.latest_by)) =>
        LET K == Column(df, "key")
            V == Column(df, call.latest_by)
        IN ReturnsRows({i \in 1..NRows(df) :
                           \A j \in 1..NRows(df) :
                               (j # i /\ K[j] = K[i]) => ClaimedBefore(V, j, i)})

\* C5: enforce_allowed_values writes "otro" into exactly the cells of the
\* column that are not null and not in the allowed set, leaves every other
\* cell, the rows and the columns as they were, and returns the number of
\* cells it wrote.
C5_EnforceAllowed ==
    (DoneEAV /\ HasColumn(df, call.column)) =>
        LET c == ColIdx(df, call.column)
            bad == {i \in 1..NRows(df) :
                       notna(df.data[c][i]) /\ df.data[c][i] \notin call.allowed}
        IN /\ ret.columns = df.columns
           /\ ret.index = df.index
           /\ \A j \in 1..Len(df.columns) : \A i \in 1..NRows(df) :
                 ret.data[j][i] =
                     IF j = c /\ i \in bad THEN OTRO ELSE df.data[j][i]
           /\ cnt = Cardinality(bad)

C5_Witness ==
    /\ DoneEAV
    /\ HasColumn(df, call.column)
    /\ NULL \notin call.allowed
    /\ cnt = 1
    /\ \E i, j, k \in 1..NRows(df) :
          /\ Column(df, call.column)[i] = NULL /\ Column(ret, call.column)[i] = NULL
          /\ Column(df, call.column)[j] \in call.allowed
          /\ Column(ret, call.column)[k] = OTRO

\* C6: drop returns exactly the first occurrence of each key, in the original
\* relative order.
C6_DropKeepsFirst ==
    (DoneHD /\ call.action = "drop" /\ HasColumn(df, "key")) =>
        /\ ReturnsRows({i \in 1..NRows(df) : FirstOccurrence(i)})
        /\ \A r1, r2 \in 1..NRows(ret) : r1 < r2 => ret.index[r1] < ret.index[r2]
        /\ ret.columns = df.columns

C6_Witness ==
    /\ DoneHD
    /\ call.action = "drop"
    /\ HasColumn(df, "key")
    /\ NRows(df) = 3
    /\ Column(df, "key")[1] = Column(df, "key")[3]
    /\ Column(df, "key")[1] # Column(df, "key")[2]
    /\ ret.index = <<0, 1>>

\* C7: mark keeps the rows and their order and sets a boolean column
\* 'duplicado' that is true exactly at the rows that are not the first
\* occurrence of their key; the number of true flags is the reported count.
C7_MarkFlags ==
    (DoneHD /\ call.action = "mark" /\ HasColumn(df, "key")) =>
        /\ ret.index = df.index
        /\ HasColumn(ret, "duplicado")
        /\ \A j \in 1..Len(df.columns) :
              df.columns[j] # "duplicado" =>
                  /\ ret.columns[j] = df.columns[j]
                  /\ ret.data[j] = df.data[j]
        /\ \A i \in 1..NRows(df) :
              Column(ret, "duplicado")[i] = B(~FirstOccurrence(i))
        /\ cnt = Cardinality({i \in 1..NRows(ret) :
                                 Column(ret, "duplicado")[i] = B(TRUE)})

C7_Witness ==
    /\ DoneHD
    /\ call.action = "mark"
    /\ HasColumn(df, "key")
    /\ ~HasColumn(df, "duplicado")
    /\ NRows(df) = 3
    /\ Column(ret, "duplicado") = <<B(FALSE), B(FALSE), B(TRUE)>>
    /\ cnt = 1

\* C13: enforce_allowed_values returns the columns it was given; so does
\* handle_duplicates, except that mark on a table with the key column returns
\* the given columns and exactly one more.
C13_ColumnSet ==
    /\ DoneEAV => ret.columns = df.columns
    /\ DoneHD =>
          IF call.action = "mark" /\ HasColumn(df, "key")
          THEN /\ Len(ret.columns) = Len(df.columns) + 1
               /\ Range(df.columns) \subseteq Range(ret.columns)
          ELSE ret.columns = df.columns

\* C14: a quality function called with a column the table does not have
\* raises nothing, returns the table as it was given, leaves the caller's
\* table as it was and reports zero, for every action.
C14_AbsentColumnNoOp ==
    /\ (pc = "q_done" /\ call.fn = "handle_duplicates"
                      /\ ~HasColumn(df, call.key)) =>
           (err = "" /\ ret = df /\ arg = df /\ cnt = 0)
    /\ (DoneEAV /\ ~HasColumn(df, call.column)) =>
           (err = "" /\ ret = df /\ arg = df /\ cnt = 0)

C14_Witness ==
    /\ DoneEAV
    /\ ~HasColumn(df, call.column)
    /\ NRows(df) = 2
    /\ Column(df, "key") = <<I(1), I(1)>>
    /\ call.allowed = {}
    /\ ret = df
    /\ cnt = 0

\* C17: after drop, or keep_latest with the tie-break column present, no
\* two rows of the returned table have the same key (nulls being one key),
\* every key of the given table is still there, and the returned row count
\* is the given row count minus the reported duplicate count.
C17_RemovalLeavesEachKeyOnce ==
    (/\ DoneHD
     /\ HasColumn(df, "key")
     /\ \/ call.action = "drop"
        \/ call.action = "keep_latest" /\ HasColumn(df, call.latest_by)) =>
        LET K == Column(ret, "key")
        IN /\ \A r1, r2 \in 1..NRows(ret) : K[r1] = K[r2] => r1 = r2
           /\ Range(K) = Range(Column(df, "key"))
           /\ NRows(ret) = NRows(df) - cnt

C17_Witness ==
    /\ DoneHD
    /\ call.action = "keep_latest"
    /\ call.latest_by = "val"
    /\ HasColumn(df, "key")
    /\ HasColumn(df, "val")
    /\ Column(df, "key") = <<NULL, I(1), NULL>>
    /\ Column(df, "val") = <<I(2), I(1), I(1)>>
    /\ NRows(ret) = 2
    /\ cnt = 1

-----------------------------------------------------------------------------
(* apply_transforms and main, step by step *)

\* df[src]: the column with the frame's row labels.
Series(t, c) == [index |-> t.index, values |-> Column(t, c)]

\* pd.Series([None]*len(df)): n nulls under the labels 0..n-1.
NullSeries(n) == [index |-> RangeIndex(n), values |-> [i \in 1..n |-> NULL]]

HasDuplicates(labels) ==
    \E i, j \in 1..Len(labels) : i # j /\ labels[i] = labels[j]

\* value.reindex(index): the value under each label of index, null for a
\* label the Series does not have.
reindex(series, index) ==
    [i \in 1..Len(index) |->
        IF \E j \in 1..Len(series.index) : series.index[j] = index[i]
        THEN series.values[CHOOSE j \in 1..Len(series.index) :
                               series.index[j] = index[i]]
        ELSE NULL]

\* out_df[target_col] = temp (DataFrame.__setitem__ with a Series): a frame
\* without rows takes the labels of the Series; a Series whose labels differ
\* from the frame's is re-aligned to the frame's labels, which raises when
\* the labels of the Series repeat.  [df, raised].
setitem(t, c, series) ==
    LET t1 == IF Len(t.index) = 0 /\ Len(series.values) > 0
              THEN [t EXCEPT !.index = series.index]
              ELSE t
    IN IF series.index = t1.index \/ Len(t1.index) = 0
       THEN [df |-> SetColumnValues(t1, c, series.values), raised |-> ""]
       ELSE IF HasDuplicates(series.index)
       THEN [df |-> t, raised |-> "ValueError"]
       ELSE [df |-> SetColumnValues(t1, c, reindex(series, t1.index)),
             raised |-> ""]

NoLogs == [duplicados |-> <<>>, valores_fuera_de_catalogo |-> <<>>,
           nulos_por_columna |-> <<>>]

mappings == config.mappings

dup_cfg == config.quality.duplicates

allowed_cfg == config.quality.allowed_values

\* The phases with allowed-value enforcement before duplicate resolution.
NextPhase_enforce_first(phase) ==
    CASE phase = "mapping" -> "allowed"
      [] phase = "allowed" -> "duplicates"
      [] phase = "duplicates" -> "report"

\* The order of main's phases: mapping, duplicates, allowed values, report.
NextPhase(phase) ==
    CASE phase = "mapping" -> "duplicates"
      [] phase = "duplicates" -> "allowed"
      [] phase = "allowed" -> "report"

\* for target_col, rule in config['mappings'].items(): src, temp
BeginRule ==
    /\ pc = "rule"
    /\ rule_i <= Len(mappings)
    /\ LET src == mappings[rule_i].source
       IN temp' = IF HasColumn(df, src) THEN Series(df, src)
                  ELSE NullSeries(NRows(df))
    /\ stage_i' = 1
    /\ pc' = "stage"
    /\ UNCHANGED <<df, config, out_df, rule_i, clean_df, logs, err, call, arg,
                   ret, cnt>>

\* ApplyTransform, with TRANSFORMS.get(name): an unknown name is skipped.
ApplyTransform_skip_unknown ==
    /\ pc = "stage"
    /\ stage_i <= Len(mappings[rule_i].transforms)
    /\ LET t == mappings[rule_i].transforms[stage_i]
       IN IF t.name \notin TRANSFORMS
          THEN /\ stage_i' = stage_i + 1
               /\ UNCHANGED <<temp, pc, err>>
          ELSE LET r == func(t, temp.values)
               IN IF r.raised # ""
                  THEN /\ err' = r.raised
                       /\ pc' = "aborted"
                       /\ UNCHANGED <<temp, stage_i>>
                  ELSE /\ temp' = [temp EXCEPT !.values = r.values]
                       /\ stage_i' = stage_i + 1
                       /\ UNCHANGED <<pc, err>>
    /\ UNCHANGED <<df, config, out_df, rule_i, clean_df, logs, call, arg, ret,
                   cnt>>

\* for t in rule.get('transforms', []): func = TRANSFORMS[t['name']];
\* temp = func(temp, **params)
ApplyTransform ==
    /\ pc = "stage"
    /\ stage_i <= Len(mappings[rule_i].transforms)
    /\ LET t == mappings[rule_i].transforms[stage_i]
       IN IF t.name \notin TRANSFORMS
          THEN /\ err' = "KeyError"
               /\ pc' = "aborted"
               /\ UNCHANGED <<temp, stage_i>>
          ELSE LET r == func(t, temp.values)
               IN IF r.raised # ""
                  THEN /\ err' = r.raised
                       /\ pc' = "aborted"
                       /\ UNCHANGED <<temp, stage_i>>
                  ELSE /\ temp' = [temp EXCEPT !.values = r.values]
                       /\ stage_i' = stage_i + 1
                       /\ UNCHANGED <<pc, err>>
    /\ UNCHANGED <<df, config, out_df, rule_i, clean_df, logs, call, arg, ret,
                   cnt>>

\* InsertColumn, with the column written into the input table:
\* df[target_col] = temp.
InsertColumn_into_df ==
    /\ pc = "stage"
    /\ stage_i > Len(mappings[rule_i].transforms)
    /\ LET r == setitem(df, mappings[rule_i].target, temp)
       IN IF r.raised # ""
          THEN /\ err' = r.raised
               /\ pc' = "aborted"
               /\ UNCHANGED <<df, rule_i>>
          ELSE /\ df' = r.df
               /\ rule_i' = rule_i + 1
               /\ pc' = "rule"
               /\ UNCHANGED err
    /\ UNCHANGED <<out_df, config, temp, stage_i, clean_df, logs, call, arg,
                   ret, cnt>>

\* out_df[target_col] = temp
InsertColumn ==
    /\ pc = "stage"
    /\ stage_i > Len(mappings[rule_i].transforms)
    /\ LET r == setitem(out_df, mappings[rule_i].target, temp)
       IN IF r.raised # ""
          THEN /\ err' = r.raised
               /\ pc' = "aborted"
               /\ UNCHANGED <<out_df, rule_i>>
          ELSE /\ out_df' = r.df
               /\ rule_i' = rule_i + 1
               /\ pc' = "rule"
               /\ UNCHANGED err
    /\ UNCHANGED <<df, config, temp, stage_i, clean_df, logs, call, arg, ret,
                   cnt>>

\* return out_df; clean_df = apply_transforms(df, config)
ReturnTable ==
    /\ pc = "rule"
    /\ rule_i > Len(mappings)
    /\ clean_df' = out_df
    /\ pc' = NextPhase("mapping")
    /\ UNCHANGED <<df, config, out_df, temp, rule_i, stage_i, logs, err, call,
                   arg, ret, cnt>>

\* if dup_cfg: clean_df, dup_count = handle_duplicates(...)
Duplicates ==
    /\ pc = "duplicates"
    /\ IF ~dup_cfg.present
       THEN /\ pc' = NextPhase("duplicates")
            /\ UNCHANGED <<clean_df, logs, err>>
       ELSE \E o \in handle_duplicates(clean_df, dup_cfg.key, dup_cfg.action,
                                       dup_cfg.latest_by) :
               IF o.raised # ""
               THEN /\ err' = o.raised
                    /\ pc' = "aborted"
                    /\ UNCHANGED <<clean_df, logs>>
               ELSE /\ clean_df' = o.df
                    /\ logs' = [logs EXCEPT !.duplicados = <<o.count>>]
                    /\ pc' = NextPhase("duplicates")
                    /\ UNCHANGED err
    /\ UNCHANGED <<df, config, out_df, temp, rule_i, stage_i, call, arg, ret,
                   cnt>>

\* for col, allowed in allowed_cfg.items():
\*     clean_df, invalid_count = enforce_allowed_values(clean_df, col, allowed)
EnforceAllowed ==
    /\ pc = "allowed"
    /\ Len(logs.valores_fuera_de_catalogo) < Len(allowed_cfg)
    /\ LET rule == allowed_cfg[Len(logs.valores_fuera_de_catalogo) + 1]
           o == enforce_allowed_values(clean_df, rule.column, rule.allowed)
       IN /\ clean_df' = o.df
          /\ logs' = [logs EXCEPT !.valores_fuera_de_catalogo =
                         Append(@, [column |-> rule.column, count |-> o.count])]
    /\ UNCHANGED <<df, config, pc, out_df, temp, rule_i, stage_i, err, call,
                   arg, ret, cnt>>

AllowedDone ==
    /\ pc = "allowed"
    /\ Len(logs.valores_fuera_de_catalogo) = Len(allowed_cfg)
    /\ pc' = NextPhase("allowed")
    /\ UNCHANGED <<df, config, out_df, temp, rule_i, stage_i, clean_df, logs,
                   err, call, arg, ret, cnt>>

\* null_counts = clean_df.isna().sum().to_dict(); the table is written out
Report ==
    /\ pc = "report"
    /\ logs' = [logs EXCEPT !.nulos_por_columna =
                   [j \in 1..Len(clean_df.columns) |->
                       [column |-> clean_df.columns[j],
                        count |-> Cardinality({i \in 1..NRows(clean_df) :
                                                  isna(clean_df.data[j][i])})]]]
    /\ pc' = "done"
    /\ UNCHANGED <<df, config, out_df, temp, rule_i, stage_i, clean_df, err,
                   call, arg, ret, cnt>>

-----------------------------------------------------------------------------
(* The runs: input tables and configurations *)

PCells == {NULL, S(<<" ", "0", "1">>), S(<<"a">>)}

\* Row labels of an input table of n rows: 0..n-1 as read from a file, and
\* the labels of a table that was reordered, sliced or concatenated.
PIndexes(n) ==
    {RangeIndex(n), [i \in 1..n |-> n - i], [i \in 1..n |-> i],
     [i \in 1..n |-> 0]}

PTables ==
    UNION {{[columns |-> <<"x">>, index |-> ix, data |-> <<v>>] :
               v \in [1..n -> PCells], ix \in PIndexes(n)} :
           n \in 0..MaxRows}

\* Transform chains of a mapping rule; "bogus" is in no registry.
PChains ==
    {<<>>,
     <<T("trim")>>,
     <<T("strip_leading_zeros"), T("trim")>>,
     <<T("trim"), T("strip_leading_zeros")>>,
     <<T("trim"), T("bogus")>>,
     <<T("bogus")>>,
     <<T("to_isoformat")>>}

Rules(target, chains) ==
    {[target |-> target, source |-> src, transforms |-> ch] :
        src \in {"x", "z"}, ch \in chains}

PMappings ==
    {<<>>}
    \cup {<<r1>> : r1 \in Rules("t2", PChains)}
    \cup {<<r1, r2>> : r1 \in Rules("t2", PChains), r2 \in Rules("t1", PChains)}

NoDup == [present |-> FALSE, key |-> "", action |-> "", latest_by |-> ""]

NoQuality == [duplicates |-> NoDup, allowed_values |-> <<>>]

QMappings ==
    {<<[target |-> "t2", source |-> "x", transforms |-> <<>>]>>,
     <<[target |-> "t2", source |-> "x", transforms |-> <<>>],
       [target |-> "t1", source |-> "x", transforms |-> <<T("trim")>>]>>}

PDuplicates ==
    {NoDup}
    \cup {[present |-> TRUE, key |-> "t2", action |-> a, latest_by |-> l] :
             a \in {"keep_latest", "drop", "mark"}, l \in {"t1", NoneName}}

PAllowed ==
    {<<>>,
     <<[column |-> "t2", allowed |-> {S(<<"a">>)}]>>,
     <<[column |-> "t2", allowed |-> {S(<<"a">>)}],
       [column |-> "t1", allowed |-> {S(<<"0", "1">>), NULL}]>>}

Configs ==
    {[mappings |-> m, quality |-> NoQuality] : m \in PMappings}
    \cup {[mappings |-> m,
           quality |-> [duplicates |-> d, allowed_values |-> a]] :
             m \in QMappings, d \in PDuplicates, a \in PAllowed}

Next ==
    \/ BeginRule
    \/ ApplyTransform
    \/ InsertColumn
    \/ ReturnTable
    \/ Duplicates
    \/ EnforceAllowed
    \/ AllowedDone
    \/ Report

Init ==
    /\ df \in PTables
    /\ config \in Configs
    /\ pc = "rule"
    /\ out_df = EmptyTable
    /\ temp = NullSeries(0)
    /\ rule_i = 1
    /\ stage_i = 1
    /\ clean_df = EmptyTable
    /\ logs = NoLogs
    /\ err = ""
    /\ call = NoCall
    /\ arg = EmptyTable
    /\ ret = EmptyTable
    /\ cnt = 0

Spec == Init /\ [][Next]_vars

-----------------------------------------------------------------------------
(* Properties of apply_transforms and of the pipeline (checked under Spec) *)

Chain(k) == mappings[k].transforms

\* The number of transforms in the chains of the rules 1..k.
RECURSIVE StagesUpTo(_)
StagesUpTo(k) == IF k = 0 THEN 0 ELSE Len(Chain(k)) + StagesUpTo(k - 1)

\* The number of transform calls apply_transforms has completed.
Applied ==
    IF pc = "stage" \/ (pc = "aborted" /\ rule_i <= Len(mappings))
    THEN StagesUpTo(rule_i - 1) + (stage_i - 1)
    ELSE StagesUpTo(rule_i - 1)

HasUnknownTransform ==
    \E k \in 1..Len(mappings) : \E j \in 1..Len(Chain(k)) :
        Chain(k)[j].name \notin TRANSFORMS

\* apply_transforms has returned its table.
Returned_out_df == pc \in {"duplicates", "allowed", "report", "done"}

\* The cells of rule k's source column in row order: the column of the
\* input table, or one null per input row when the table has no such column.
SourceValues(k) ==
    IF HasColumn(df, mappings[k].source) THEN Column(df, mappings[k].source)
    ELSE [i \in 1..NRows(df) |-> NULL]

\* The stages j.. of a chain applied left to right to a column.
RECURSIVE RunChain(_, _, _)
RunChain(chain, j, values) ==
    IF j > Len(chain) THEN values
    ELSE RunChain(chain, j + 1, func(chain[j], values).values)

\* for t in rule.get('transforms', []): temp = TRANSFORMS[t['name']](temp,
\* **params), from stage j on; r is [values, raised] so far.
RECURSIVE run_chain(_, _, _)
run_chain(chain, j, r) ==
    IF r.raised # "" \/ j > Len(chain) THEN r
    ELSE IF chain[j].name \notin TRANSFORMS
    THEN [values |-> <<>>, raised |-> "KeyError"]
    ELSE run_chain(chain, j + 1, func(chain[j], r.values))

\* apply_transforms(df, config) as a function of its arguments: the rules
\* k.. of the mappings m applied to the table t, out being the table
\* assembled so far.  [df, raised].
RECURSIVE apply_rules(_, _, _, _)
apply_rules(t, m, k, out) ==
    IF k > Len(m) THEN [df |-> out, raised |-> ""]
    ELSE LET src == m[k].source
             temp0 == IF HasColumn(t, src) THEN Series(t, src)
                      ELSE NullSeries(NRows(t))
             r == run_chain(m[k].transforms, 1, Returned(temp0.values))
             ins == setitem(out, m[k].target, [temp0 EXCEPT !.values = r.values])
         IN IF r.raised # "" THEN [df |-> out, raised |-> r.raised]
            ELSE IF ins.raised # "" THEN [df |-> out, raised |-> ins.raised]
            ELSE apply_rules(t, m, k + 1, ins.df)

apply_transforms(t, cfg) == apply_rules(t, cfg.mappings, 1, EmptyTable)

\* C3 (as claimed): when the run aborts on an unknown transform name, no
\* transform of any rule has been applied before.
C3_NoTransformBeforeAbort == err = "KeyError" => Applied = 0

\* C3 (amended): a configuration that names an unknown transform never
\* yields a table or a quality step; the KeyError is raised at the lookup of
\* the unknown name, when its rule's chain reaches that stage, after the
\* transforms of every earlier rule and stage have been applied.
C3_UnknownTransformAbortsAtLookup ==
    /\ HasUnknownTransform => (~Returned_out_df /\ clean_df = EmptyTable
                                  /\ logs = NoLogs)
    /\ err = "KeyError" =>
          /\ pc = "aborted"
          /\ Chain(rule_i)[stage_i].name \notin TRANSFORMS
          /\ \A j \in 1..(stage_i - 1) : Chain(rule_i)[j].name \in TRANSFORMS
          /\ \A k \in 1..(rule_i - 1) : \A j \in 1..Len(Chain(k)) :
                Chain(k)[j].name \in TRANSFORMS
          /\ Len(out_df.columns) = rule_i - 1
          /\ temp.values = RunChain([j \in 1..(stage_i - 1) |-> Chain(rule_i)[j]],
                                    1, SourceValues(rule_i))

C3_Witness ==
    /\ err = "KeyError"
    /\ rule_i = 2
    /\ Applied = 3
    /\ out_df.data[1] # SourceValues(1)

\* C8: every enforcement step of a run finds the duplicates step done, its
\* count is the number of non-null, not-allowed cells of the column in the
\* table as deduplication left it, and no row is removed from then on.
C8_CountsAfterDeduplication ==
    [][/\ pc \in {"allowed", "report"} => clean_df'.index = clean_df.index
       /\ (pc = "allowed" /\ logs' # logs) =>
             LET k == Len(logs.valores_fuera_de_catalogo) + 1
                 rule == allowed_cfg[k]
                 bad == IF HasColumn(clean_df, rule.column)
                        THEN {i \in 1..NRows(clean_df) :
                                 /\ notna(Column(clean_df, rule.column)[i])
                                 /\ Column(clean_df, rule.column)[i]
                                        \notin rule.allowed}
                        ELSE {}
             IN /\ dup_cfg.present => logs.duplicados # <<>>
                /\ logs'.valores_fuera_de_catalogo[k] =
                       [column |-> rule.column, count |-> Cardinality(bad)]]_vars

C8_Witness ==
    /\ pc = "done"
    /\ dup_cfg.present /\ dup_cfg.action = "drop"
    /\ logs.duplicados = <<1>>
    /\ Len(allowed_cfg) > 0
    /\ mappings[1] = [target |-> "t2", source |-> "x", transforms |-> <<>>]
    /\ allowed_cfg[1].column = "t2"
    /\ logs.valores_fuera_de_catalogo[1].count = 1
    /\ Cardinality({i \in 1..NRows(df) :
                       /\ notna(Column(df, "x")[i])
                       /\ Column(df, "x")[i] \notin allowed_cfg[1].allowed}) = 2

\* C9: the returned table has its columns in mapping declaration order, each
\* of the input's row count, and the cell at row i of a column is the chain
\* result for row i of its source column, by position.
C9_OutputByPosition ==
    Returned_out_df =>
        /\ out_df.columns = [k \in 1..Len(mappings) |-> mappings[k].target]
        /\ \A k \in 1..Len(mappings) :
              /\ Len(out_df.data[k]) = NRows(df)
              /\ out_df.data[k] = RunChain(Chain(k), 1, SourceValues(k))

\* C10: a rule whose source column is absent does not make apply_transforms
\* fail: its chain runs on a column of one null per input row and the result
\* is inserted under the target, and no insertion of the run raises.
C10_MissingSourceDoesNotFail ==
    (\E k \in 1..Len(mappings) : ~HasColumn(df, mappings[k].source)) =>
        /\ \A k \in 1..Len(out_df.columns) :
              ~HasColumn(df, mappings[k].source) =>
                  out_df.data[k] =
                      RunChain(Chain(k), 1, [i \in 1..NRows(df) |-> NULL])
        /\ pc = "aborted" =>
              /\ stage_i <= Len(Chain(rule_i))
              /\ ~HasColumn(df, mappings[rule_i].source) => err = "KeyError"

\* C15: no step of apply_transforms changes the input table, and the table
\* it returns is the one value that the input table and the configuration
\* determine.
C15_InputUntouchedAndDeterministic ==
    [][(pc \in {"rule", "stage"}) =>
          (/\ df' = df
           /\ config' = config
           /\ (pc = "rule" /\ pc' \notin {"stage", "aborted"}) =>
                  (/\ apply_transforms(df, config).raised = ""
                   /\ clean_df' = apply_transforms(df, config).df))]_vars

C15_Witness ==
    /\ Returned_out_df
    /\ NRows(df) = 2
    /\ Len(mappings) = 2
    /\ Chain(1) = <<T("trim"), T("strip_leading_zeros")>>
    /\ mappings[1].source = "x"
    /\ Column(df, "x") = <<S(<<" ", "0", "1">>), S(<<"a">>)>>
    /\ out_df.data[1] = <<S(<<"1">>), S(<<"a">>)>>
    /\ df.columns = <<"x">>

\* The mapping rules in the opposite order of processing.
Reversed(m) == [k \in 1..Len(m) |-> m[Len(m) + 1 - k]]

\* C16: each target column of the returned table is its own chain applied
\* left to right to its source column, and is the same column when the
\* rules are processed in the opposite order.
C16_ChainOrderAndRuleIndependence ==
    Returned_out_df =>
        LET rev == apply_rules(df, Reversed(mappings), 1, EmptyTable)
        IN /\ rev.raised = ""
           /\ \A k \in 1..Len(mappings) :
                 /\ Column(out_df, mappings[k].target) =
                        run_chain(Chain(k), 1, Returned(SourceValues(k))).values
                 /\ Column(out_df, mappings[k].target) =
                        Column(rev.df, mappings[k].target)

-----------------------------------------------------------------------------
(* Direct calls of one transform on a Series of one cell, as the tests     *)
(* make them: arg is the Series passed, call the transform with its        *)
(* parameters, ret the Series returned.                                    *)

Texts == UNION {[1..n -> Chars] : n \in 0..MaxLen}

TCells == {S(t) : t \in Texts} \cup {NULL, I(0), I(10), DT(1)}

Patterns == {PatDigits, PatAOptDigit, PatLetter}

TParams ==
    {[T("normalize_text") EXCEPT !.lowercase = l, !.strip_accents = a,
                                 !.trim = w] : l, a, w \in BOOLEAN}
    \cup {[T("remove_pattern") EXCEPT !.pattern = pat] : pat \in Patterns}
    \cup {[T("regex_extract") EXCEPT !.pattern = pat, !.group = g,
                                     !.as_type = ty] :
             pat \in Patterns, g \in 0..2, ty \in {"None", "int"}}
    \cup {T("to_datetime"), T("to_isoformat"), T("trim"),
          T("strip_leading_zeros")}
    \cup {[T("cast_type") EXCEPT !.to = to] :
             to \in {"string", "int", "float", "category"}}
    \cup {[T("split_by") EXCEPT !.index = i] : i \in 0..1}
    \cup {[T("split_by_rest") EXCEPT !.start_index = i] : i \in 1..2}
    \cup {[T("reencode") EXCEPT !.to_enc = e] : e \in {"utf-8", "ascii"}}

InitT ==
    /\ arg \in {[index |-> <<0>>, values |-> <<x>>] : x \in TCells}
    /\ pc = "t_call"
    /\ call = T("")
    /\ ret = NullSeries(0)
    /\ err = ""
    /\ df = EmptyTable
    /\ config = <<>>
    /\ out_df = EmptyTable
    /\ temp = NullSeries(0)
    /\ rule_i = 0
    /\ stage_i = 0
    /\ clean_df = EmptyTable
    /\ logs = NoLogs
    /\ cnt = 0

\* out = TRANSFORMS[name](series, **params).  pd.to_numeric of a datetime
\* cell is outside the model.
CallTransform ==
    /\ pc = "t_call"
    /\ \E t \in TParams :
          /\ ~(t.name = "cast_type" /\ t.to \in {"int", "float"}
                 /\ arg.values[1].k = "dt")
          /\ call' = t
          /\ LET r == func(t, arg.values)
             IN /\ err' = r.raised
                /\ ret' = [index |-> IF r.raised = "" THEN arg.index ELSE <<>>,
                           values |-> r.values]
    /\ pc' = "t_done"
    /\ UNCHANGED <<df, config, out_df, temp, rule_i, stage_i, clean_df, logs,
                   arg, cnt>>

\* normalize_text(normalize_text(series, **params), **params): the same call
\* on the Series the first call returned.
CallTransformAgain ==
    /\ pc = "t_done"
    /\ err = ""
    /\ call.name = "normalize_text"
    /\ LET r == func(call, ret.values)
       IN /\ err' = r.raised
          /\ temp' = [index |-> IF r.raised = "" THEN ret.index ELSE <<>>,
                      values |-> r.values]
    /\ pc' = "t_again"
    /\ UNCHANGED <<df, config, out_df, rule_i, stage_i, clean_df, logs, arg,
                   call, ret, cnt>>

NextT == CallTransform \/ CallTransformAgain

SpecT == InitT /\ [][NextT]_vars

\* C4: no cell value and no parameter setting makes a transform raise: a
\* value the transform cannot handle gives a null cell.  Stated for the two
\* transforms whose failures the claim lists first, regex_extract (capture
\* group) and strip_leading_zeros (digit-like string).
C4_NoValueFailureRaised ==
    (pc = "t_done" /\ call.name \in {"regex_extract", "strip_leading_zeros"})
        => err = ""

\* C11: a null cell given to any transform, under any parameters, comes out
\* as a null cell and nothing is raised; cast_type to "string" is left aside.
C11_NullInNullOut ==
    (/\ pc = "t_done"
     /\ isna(arg.values[1])
     /\ ~(call.name = "cast_type" /\ call.to = "string")) =>
        /\ err = ""
        /\ Len(ret.values) = 1
        /\ isna(ret.values[1])

C11_Witness ==
    /\ pc = "t_done"
    /\ isna(arg.values[1])
    /\ call.name = "trim"
    /\ err = ""
    /\ ret.values = <<NULL>>

\* C12: normalize_text applied to its own result, with the same flags,
\* returns that result unchanged.
C12_NormalizeTextIdempotent ==
    (pc = "t_again" /\ call.name = "normalize_text") =>
        (err = "" /\ temp.values = ret.values)

====
